---- MODULE Spec2Model ----
(***************************************************************************)
(* Model of static/app.js, the front-end logic of the ward shift-table     *)
(* maker: the session state (uploadedData, originalSchedule,               *)
(* generatedSchedule), the three asynchronous requests (upload, generate,  *)
(* download), the preset store, and the pure functions of the grid         *)
(* renderer (getSettings, renderTable, getStatBadge, getDayClass).         *)
(*                                                                         *)
(* Conventions.                                                            *)
(*  - A JavaScript string is a sequence of characters; a character is      *)
(*    written as a TLA+ string.  ASCII characters stand for themselves;    *)
(*    the kanji and kana of the source are written in romaji (the parser   *)
(*    accepts ASCII only):                                                 *)
(*        U+65E5 "nichi" (day)        U+591C "ya" (night)                  *)
(*        U+660E "ake" (post-night)   U+516C "kou" (public holiday)        *)
(*        U+5E0C "ki" (requested off) U+59D4 "i" (committee)               *)
(*        U+4F11 "kyuu" (rest)        U+6709 "yuu" (paid leave)            *)
(*        U+7814 "ken" (training)     "de","fo","ru","to" (the built-in    *)
(*        preset name).                                                    *)
(*  - null / undefined of an object-valued variable is the empty sequence  *)
(*    None, and a present value v is the one-element sequence Some(v).     *)
(*  - JavaScript indexes from 0, TLA+ sequences from 1: the row with       *)
(*    TLA+ index i is the source's row i-1.                                *)
(***************************************************************************)
EXTENDS Integers, Sequences, FiniteSets, TLC

VARIABLES
    uploadedData,       \* None or Some([staff_ids, dates, schedule])       (line 9)
    originalSchedule,   \* None or Some(matrix): the copy made at upload    (line 10)
    generatedSchedule,  \* None or Some(matrix): the last generate result   (line 11)
    scheduleTable,      \* None or Some(markup): scheduleTable.innerHTML    (line 482)
    generateBtn,        \* [disabled, text] of the generate button
    downloadBtnDisabled,\* downloadBtn.disabled
    loadingShown,       \* the loading panel is shown
    warningsShown,      \* the warnings panel is shown
    fileName,           \* fileName.textContent
    inflight,           \* the requests awaiting their response, oldest first
    epoch,              \* history: number of uploads completed so far
    refused,            \* history: handleFileUpload has turned a file away (lines 229-232)
    inputs,             \* value of each of the six threshold inputs
    presetSelect,       \* presetSelect.value
    shiftPresets,       \* the object stored under localStorage "shiftPresets"
    badgeCall,          \* one call of getStatBadge: arguments and outcome
    renderCall,         \* one call of renderTable: arguments and outcome
    settingsCall,       \* one call of getSettings: the six input texts and the outcome
    dayCall             \* one call of getDayClass: arguments and outcome

sessionVars == <<uploadedData, originalSchedule, generatedSchedule, scheduleTable,
                 generateBtn, downloadBtnDisabled, loadingShown, warningsShown,
                 fileName, inflight, epoch, refused>>
presetVars == <<inputs, presetSelect, shiftPresets>>
callVars == <<badgeCall, renderCall, settingsCall, dayCall>>

vars == <<sessionVars, presetVars, callVars>>

None == <<>>
Some(v) == <<v>>

(***************************************************************************)
(* Bounds of the model.                                                    *)
(***************************************************************************)
MaxBadge == 3           \* badge values and targets range over -MaxBadge..MaxBadge
MaxDates == 2           \* date columns of a rendered row
MaxStaff == 3           \* staff rows of a rendered column
MaxThreshold == 3       \* thresholds entered for the column totals: 0..MaxThreshold
MaxInFlight == 2        \* requests awaiting a response at one time
MaxUploads == 2         \* uploads completed in one session
NumEditableKeys == 1    \* threshold inputs the user types into: the last ones of SETTING_KEYS

(***************************************************************************)
(* Strings                                                                 *)
(***************************************************************************)
Whitespace == {" ", "\t", "\n"}

RECURSIVE TrimStart(_)
TrimStart(s) ==
    IF s # <<>> /\ Head(s) \in Whitespace THEN TrimStart(Tail(s)) ELSE s

RECURSIVE TrimEnd(_)
TrimEnd(s) ==
    IF s # <<>> /\ s[Len(s)] \in Whitespace
    THEN TrimEnd(SubSeq(s, 1, Len(s) - 1))
    ELSE s

\* String.prototype.trim
Trim(s) == TrimEnd(TrimStart(s))

(***************************************************************************)
(* getStatBadge(value, target, type), lines 514-537.  The returned markup  *)
(* is the record of its CSS class and its text; the last return, a bare    *)
(* `${value}`, has no class.  No path of the function throws.              *)
(***************************************************************************)
Badge(cls, value) == [threw |-> FALSE, cls |-> cls, text |-> value]

NightBadgeOffByOne(value, target) ==
    IF value >= target /\ target > 0 THEN Badge("stat-badge-danger", value)
    ELSE IF value > target - 1 /\ target > 0 THEN Badge("stat-badge-warning", value)
    ELSE Badge("stat-badge-ok", value)

NightBadge(value, target) ==
    IF value >= target /\ target > 0 THEN Badge("stat-badge-danger", value)
    ELSE IF value >= target - 1 /\ target > 0 THEN Badge("stat-badge-warning", value)
    ELSE Badge("stat-badge-ok", value)

Abs(n) == IF n < 0 THEN -n ELSE n

OffBadgeOneSided(value, target) ==
    LET diff == value - target IN
    IF diff >= 2 THEN Badge("stat-badge-danger", value)
    ELSE IF diff >= 1 THEN Badge("stat-badge-warning", value)
    ELSE Badge("stat-badge-ok", value)

OffBadge(value, target) ==
    LET diff == Abs(value - target) IN
    IF diff >= 2 THEN Badge("stat-badge-danger", value)
    ELSE IF diff >= 1 THEN Badge("stat-badge-warning", value)
    ELSE Badge("stat-badge-ok", value)

getStatBadge(value, target, type) ==
    IF type = "night" THEN NightBadge(value, target)
    ELSE IF type = "off" THEN OffBadge(value, target)
    ELSE Badge("", value)

(***************************************************************************)
(* parseInt(string) with no radix, as lines 127 and 380-385 use it:        *)
(* leading whitespace is skipped, one sign is read, then the longest run   *)
(* of decimal digits; with no digit the result is NaN.  (A "0x" prefix,    *)
(* which selects radix 16, is outside the strings the model enters.)       *)
(***************************************************************************)
Digits == <<"0", "1", "2", "3", "4", "5", "6", "7", "8", "9">>

IsDigit(c) == \E d \in 1..10 : Digits[d] = c

DigitVal(c) == (CHOOSE d \in 1..10 : Digits[d] = c) - 1

RECURSIVE DigitRun(_, _, _)
\* digits read so far (seen), their value (acc), the rest of the string (s)
DigitRun(s, acc, seen) ==
    IF s # <<>> /\ IsDigit(Head(s))
    THEN DigitRun(Tail(s), 10 * acc + DigitVal(Head(s)), TRUE)
    ELSE [nan |-> ~seen, val |-> acc]

ParseInt(text) ==
    LET s == TrimStart(text)
        neg == s # <<>> /\ Head(s) = "-"
        signed == s # <<>> /\ Head(s) \in {"-", "+"}
        run == DigitRun(IF signed THEN Tail(s) ELSE s, 0, FALSE)
    IN  [nan |-> run.nan, val |-> IF neg THEN 0 - run.val ELSE run.val]

\* parseInt(x) || fallback: NaN and 0 are falsy
ParseIntOr(text, fallback) ==
    LET n == ParseInt(text) IN IF n.nan \/ n.val = 0 THEN fallback ELSE n.val

RECURSIVE DigitsOf(_)
DigitsOf(n) ==
    IF n < 10 THEN <<Digits[n + 1]>> ELSE Append(DigitsOf(n \div 10), Digits[(n % 10) + 1])

\* String(n) of an integer n, the conversion el.value = preset[key] performs (line 110)
ToStr(n) == IF n < 0 THEN <<"-">> \o DigitsOf(0 - n) ELSE DigitsOf(n)

(***************************************************************************)
(* The six threshold inputs and getSettings, lines 57 and 378-387.         *)
(***************************************************************************)
SETTING_KEYS == <<"dayLeaderCount", "nightLeaderCount", "nightEligibleCount",
                  "requiredPerDay", "maxNightShifts", "daysOff">>

SettingKeySet == {SETTING_KEYS[k] : k \in 1..Len(SETTING_KEYS)}

DEFAULT_VALUES ==
    [dayLeaderCount |-> 10, nightLeaderCount |-> 8, nightEligibleCount |-> 17,
     requiredPerDay |-> 5, maxNightShifts |-> 5, daysOff |-> 9]

getSettings(els) ==
    [day_leader_count |-> ParseIntOr(els["dayLeaderCount"], 10),
     night_leader_count |-> ParseIntOr(els["nightLeaderCount"], 8),
     night_eligible_count |-> ParseIntOr(els["nightEligibleCount"], 17),
     required_staff_per_day |-> ParseIntOr(els["requiredPerDay"], 5),
     max_night_shifts |-> ParseIntOr(els["maxNightShifts"], 5),
     days_off |-> ParseIntOr(els["daysOff"], 9)]

(***************************************************************************)
(* Shift codes and SHIFT_CLASS_MAP, lines 182-192 and 486-488.             *)
(***************************************************************************)
NICHI == <<"nichi">>
YA == <<"ya">>
AKE == <<"ake">>
KOU == <<"kou">>
KI == <<"ki">>
I_ == <<"i">>
KYUU == <<"kyuu">>
YUU == <<"yuu">>
KEN == <<"ken">>

ShiftCodes == {NICHI, YA, AKE, KOU, KI, I_, KYUU, YUU, KEN}

getCellClass(shift) ==
    IF shift = NICHI THEN "shift-day"
    ELSE IF shift = YA THEN "shift-night"
    ELSE IF shift = AKE THEN "shift-morning-after"
    ELSE IF shift = KOU THEN "shift-holiday"
    ELSE IF shift = KI THEN "shift-requested"
    ELSE IF shift = I_ THEN "shift-committee"
    ELSE IF shift \in {KYUU, YUU, KEN} THEN "shift-other"
    ELSE ""

(***************************************************************************)
(* renderTable(staffIds, dates, schedule, original), lines 393-484.        *)
(* A matrix is a sequence of rows, a row a sequence of cell strings; a     *)
(* row or cell beyond the end of its sequence is undefined in the source.  *)
(* `original` is None (null, the default) or Some(matrix).                 *)
(***************************************************************************)
\* schedule[i] && schedule[i][j] ? schedule[i][j] : ""    (line 430)
ShiftAt(schedule, i, j) ==
    IF i <= Len(schedule) /\ j <= Len(schedule[i]) THEN schedule[i][j] ELSE <<>>

\* original[i][j] reads a property of undefined when row i is missing (line 431)
OriginalRowMissing(original, i) == original # None /\ i > Len(original[1])

IsFixedUntrimmed(original, i, j) ==
    IF original = None THEN FALSE
    ELSE LET row == original[1][i] IN j <= Len(row) /\ row[j] # <<>>

\* original ? (original[i][j] && original[i][j].trim() !== "") : false
IsFixed(original, i, j) ==
    IF original = None THEN FALSE
    ELSE LET row == original[1][i] IN
         IF j <= Len(row) /\ row[j] # <<>> THEN Trim(row[j]) # <<>> ELSE FALSE

OffCodesWithTraining == {KOU, KI, KYUU, YUU, KEN}

\* ["公", "希", "休", "有"]   (line 440)
OffCodes == {KOU, KI, KYUU, YUU}

RECURSIVE RowCounts(_, _, _)
\* the three counters of row i after the first j cells (lines 425-441)
RowCounts(schedule, i, j) ==
    IF j = 0 THEN [nightCount |-> 0, dayCount |-> 0, offCount |-> 0]
    ELSE LET prev == RowCounts(schedule, i, j - 1)
             shift == ShiftAt(schedule, i, j)
         IN  [nightCount |-> prev.nightCount + (IF shift = YA THEN 1 ELSE 0),
              dayCount |-> prev.dayCount + (IF shift = NICHI THEN 1 ELSE 0),
              offCount |-> prev.offCount + (IF shift \in OffCodes THEN 1 ELSE 0)]

\* the two comparisons of lines 414-419 taken as inclusive
RowClassInclusive(i, settings) ==
    IF i - 1 <= settings.night_leader_count THEN "leader-row"
    ELSE IF i - 1 <= settings.night_eligible_count THEN "night-eligible-row"
    ELSE ""

\* leader-row / night-eligible-row (lines 414-419); i is the TLA+ index, i-1 the source's
RowClass(i, settings) ==
    IF i - 1 < settings.night_leader_count THEN "leader-row"
    ELSE IF i - 1 < settings.night_eligible_count THEN "night-eligible-row"
    ELSE ""

RenderRow(staffIds, dates, schedule, original, settings, i) ==
    LET counts == RowCounts(schedule, i, Len(dates)) IN
    [rowClass |-> RowClass(i, settings),
     id |-> staffIds[i],
     cells |-> [j \in 1..Len(dates) |->
                   [cls |-> getCellClass(ShiftAt(schedule, i, j)),
                    fixed |-> IsFixed(original, i, j),
                    text |-> ShiftAt(schedule, i, j)]],
     nightBadge |-> getStatBadge(counts.nightCount, settings.max_night_shifts, "night"),
     dayCount |-> counts.dayCount,
     offBadge |-> getStatBadge(counts.offCount, settings.days_off, "off")]

RECURSIVE ColumnTotal(_, _, _, _)
\* cells of column j equal to `code` among the first n rows (lines 457-460, 470-473)
ColumnTotal(schedule, j, code, n) ==
    IF n = 0 THEN 0
    ELSE ColumnTotal(schedule, j, code, n - 1)
         + (IF n <= Len(schedule) /\ j <= Len(schedule[n]) /\ schedule[n][j] = code
            THEN 1 ELSE 0)

NightShortageFromSettings(nightTotal, settings) == nightTotal < settings.max_night_shifts

\* const shortage = nightTotal < 2    (line 474)
NightShortage(nightTotal, settings) == nightTotal < 2

\* const shortage = dayTotal < settings.required_staff_per_day    (line 461)
DayShortage(dayTotal, settings) == dayTotal < settings.required_staff_per_day

RenderThrew == [threw |-> TRUE, rows |-> <<>>, dayRow |-> <<>>, nightRow |-> <<>>]

\* The markup renderTable builds, or RenderThrew when it throws before line 482.
RenderTable(staffIds, dates, schedule, original, els) ==
    LET settings == getSettings(els) IN
    IF Len(dates) > 0 /\ \E i \in 1..Len(staffIds) : OriginalRowMissing(original, i)
    THEN RenderThrew
    ELSE [threw |-> FALSE,
          rows |-> [i \in 1..Len(staffIds) |->
                       RenderRow(staffIds, dates, schedule, original, settings, i)],
          dayRow |-> [j \in 1..Len(dates) |->
                        LET dayTotal == ColumnTotal(schedule, j, NICHI, Len(staffIds)) IN
                        [total |-> dayTotal, shortage |-> DayShortage(dayTotal, settings)]],
          nightRow |-> [j \in 1..Len(dates) |->
                        LET nightTotal == ColumnTotal(schedule, j, YA, Len(staffIds)) IN
                        [total |-> nightTotal, shortage |-> NightShortage(nightTotal, settings)]]]

(***************************************************************************)
(* The page after the script has run (lines 9-11, 36-42, 176): no data,    *)
(* nothing rendered, both buttons disabled until an upload enables them    *)
(* (the comments of lines 258 and 307), the built-in preset selected.      *)
(***************************************************************************)
\* the value attributes of the six inputs when the page loads
InitialInputs == [k \in SettingKeySet |-> ToStr(DEFAULT_VALUES[k])]

\* "デフォルト", the one key of DEFAULT_PRESETS (line 60)
DEFAULT_NAME == <<"de", "fo", "ru", "to">>

\* "__custom__", the value of the hidden option (line 88)
CUSTOM == <<"_", "_", "c", "u", "s", "t", "o", "m", "_", "_">>

\* JSON.parse(localStorage.getItem("shiftPresets") || "{}") on a first visit
NoPresets == [n \in {} |-> DEFAULT_VALUES]

PageLoaded ==
    /\ uploadedData = None
    /\ originalSchedule = None
    /\ generatedSchedule = None
    /\ scheduleTable = None
    /\ generateBtn = [disabled |-> TRUE, text |-> "create"]
    /\ downloadBtnDisabled = TRUE
    /\ loadingShown = FALSE
    /\ warningsShown = FALSE
    /\ fileName = <<>>
    /\ inflight = <<>>
    /\ epoch = 0
    /\ refused = FALSE
    /\ inputs = InitialInputs
    /\ presetSelect = DEFAULT_NAME       \* loadPresets() of line 176, nothing stored
    /\ shiftPresets = NoPresets

(***************************************************************************)
(* Files and the collaborating services.  What the upload service extracts *)
(* from a file is fixed by the file; whether a request succeeds is the     *)
(* service's choice.                                                       *)
(***************************************************************************)
\* a 2 x 2 grid with two fixed cells
FullData ==
    [staff_ids |-> <<<<"s", "1">>, <<"s", "2">>>>,
     dates |-> <<<<"1">>, <<"2">>>>,
     schedule |-> <<<<KOU, <<>>>>, <<<<>>, YA>>>>]

\* a sparse grid: two staff, but a schedule row for the first only
SparseData ==
    [staff_ids |-> <<<<"s", "1">>, <<"s", "2">>>>,
     dates |-> <<<<"1">>, <<"2">>>>,
     schedule |-> <<<<NICHI, <<>>>>>>]

NoData == [staff_ids |-> <<>>, dates |-> <<>>, schedule |-> <<>>]

Files ==
    {[name |-> <<"a", ".", "x", "l", "s", "x">>, data |-> FullData],
     [name |-> <<"b", ".", "X", "L", "S">>, data |-> SparseData],
     [name |-> <<"c", ".", "c", "s", "v">>, data |-> NoData],
     [name |-> <<"d", ".", "x", "l", "s", "m">>, data |-> NoData],
     [name |-> <<"x", "l", "s", "x">>, data |-> NoData]}

NoFile == [name |-> <<>>, data |-> NoData]

ToLower(c) == IF c = "X" THEN "x" ELSE IF c = "L" THEN "l" ELSE IF c = "S" THEN "s" ELSE c

EndsWith(s, suffix) ==
    /\ Len(s) >= Len(suffix)
    /\ \A k \in 1..Len(suffix) : ToLower(s[Len(s) - Len(suffix) + k]) = suffix[k]

\* a test for any extension of three letters in place of /\.xlsx?$/i
IsSpreadsheetNameAnyExtension(name) == Len(name) >= 4 /\ name[Len(name) - 3] = "."

\* file.name.match(/\.xlsx?$/i)    (line 229)
IsSpreadsheetName(name) ==
    EndsWith(name, <<".", "x", "l", "s">>) \/ EndsWith(name, <<".", "x", "l", "s", "x">>)

\* row => [...row] over the matrix (lines 250, 294): a copy, equal cell by cell
CopyMatrix(m) == [i \in 1..Len(m) |-> [j \in 1..Len(m[i]) |-> m[i][j]]]

NoSettings == getSettings(InitialInputs)

NoBody == [staff_ids |-> <<>>, dates |-> <<>>, schedule |-> <<>>,
           settings |-> NoSettings, epoch |-> 0]

\* The generate service's answer to a request body: a full staff x dates matrix
\* that keeps the cells the request fixed and fills the others with `fill`.
GenerateResult(body, fill) ==
    [i \in 1..Len(body.staff_ids) |->
        [j \in 1..Len(body.dates) |->
            IF ShiftAt(body.schedule, i, j) # <<>> THEN ShiftAt(body.schedule, i, j)
            ELSE fill]]

Fills == {NICHI, YA}

(***************************************************************************)
(* showLoading(show), lines 551-559.                                       *)
(***************************************************************************)
ShowLoadingTrue ==
    /\ loadingShown' = TRUE
    /\ generateBtn' = [generateBtn EXCEPT !.disabled = TRUE]
    /\ downloadBtnDisabled' = TRUE

\* showLoading(false) with disabled = show alone: both buttons come back enabled
ShowLoadingFalseEnablesBoth(data, generated, text) ==
    /\ loadingShown' = FALSE
    /\ generateBtn' = [disabled |-> FALSE, text |-> text]
    /\ downloadBtnDisabled' = FALSE

\* showLoading(false) once the handler has left the globals at `data`, `generated`
\* and the button label at `text`
ShowLoadingFalse(data, generated, text) ==
    /\ loadingShown' = FALSE
    /\ generateBtn' = [disabled |-> (data = None), text |-> text]
    /\ downloadBtnDisabled' = (generated = None)

Without(q, k) == [n \in 1..(Len(q) - 1) |-> IF n < k THEN q[n] ELSE q[n + 1]]

(***************************************************************************)
(* handleFileUpload(file), lines 228-272.                                  *)
(***************************************************************************)
\* up to the await of line 239
HandleFileUpload(file) ==
    /\ Len(inflight) < MaxInFlight
    /\ IF ~IsSpreadsheetName(file.name)
       THEN /\ refused' = TRUE
            /\ UNCHANGED <<generateBtn, downloadBtnDisabled, loadingShown, inflight>>
       ELSE /\ ShowLoadingTrue
            /\ inflight' = Append(inflight, [kind |-> "upload", file |-> file, body |-> NoBody])
            /\ UNCHANGED refused
    /\ UNCHANGED <<uploadedData, originalSchedule, generatedSchedule, scheduleTable,
                   warningsShown, fileName, epoch, presetVars, callVars>>

\* res.ok: lines 249-265, then line 270
UploadOk(k) ==
    /\ k \in 1..Len(inflight)
    /\ inflight[k].kind = "upload"
    /\ epoch < MaxUploads
    /\ LET data == inflight[k].file.data IN
        /\ uploadedData' = Some(data)
        /\ originalSchedule' = Some(CopyMatrix(data.schedule))
        /\ generatedSchedule' = None
        /\ fileName' = inflight[k].file.name
        /\ scheduleTable' = Some(RenderTable(data.staff_ids, data.dates, data.schedule,
                                             None, inputs))
        /\ warningsShown' = FALSE
        /\ ShowLoadingFalse(Some(data), None, "create")
    /\ inflight' = Without(inflight, k)
    /\ epoch' = epoch + 1
    /\ UNCHANGED <<refused, presetVars, callVars>>

\* !res.ok, or fetch rejected: lines 244-247 or 239, then 267-270
UploadFail(k) ==
    /\ k \in 1..Len(inflight)
    /\ inflight[k].kind = "upload"
    /\ ShowLoadingFalse(uploadedData, generatedSchedule, generateBtn.text)
    /\ inflight' = Without(inflight, k)
    /\ UNCHANGED <<uploadedData, originalSchedule, generatedSchedule, scheduleTable,
                   warningsShown, fileName, epoch, refused,
                   presetVars, callVars>>

(***************************************************************************)
(* generateShift(), lines 280-331.  The button's click listener (line 278) *)
(* runs only while the button is enabled.                                  *)
(***************************************************************************)
\* a payload that sends the matrix on display: the generated one once there is one
GenerateBodyFromDisplayed ==
    [staff_ids |-> uploadedData[1].staff_ids,
     dates |-> uploadedData[1].dates,
     schedule |-> IF generatedSchedule # None THEN CopyMatrix(generatedSchedule[1])
                  ELSE CopyMatrix(originalSchedule[1]),
     settings |-> getSettings(inputs),
     epoch |-> epoch]

\* the payload of lines 291-296; epoch is history: the upload it was built from
GenerateBody ==
    [staff_ids |-> uploadedData[1].staff_ids,
     dates |-> uploadedData[1].dates,
     schedule |-> CopyMatrix(originalSchedule[1]),
     settings |-> getSettings(inputs),
     epoch |-> epoch]

\* up to the await of line 288
GenerateClick ==
    /\ ~generateBtn.disabled
    /\ Len(inflight) < MaxInFlight
    /\ IF uploadedData = None
       THEN UNCHANGED <<generateBtn, downloadBtnDisabled, loadingShown, inflight>>
       ELSE /\ ShowLoadingTrue
            /\ inflight' = Append(inflight,
                   [kind |-> "generate", file |-> NoFile, body |-> GenerateBody])
    /\ UNCHANGED <<uploadedData, originalSchedule, generatedSchedule, scheduleTable,
                   warningsShown, fileName, epoch, refused,
                   presetVars, callVars>>

\* the markup of line 312, from the globals as they are when the response arrives
GenerateRender(result) ==
    RenderTable(uploadedData[1].staff_ids, uploadedData[1].dates, result,
                originalSchedule, inputs)

\* res.ok and renderTable returns: lines 304-324, then line 329
GenerateOk(k, fill, warnings) ==
    /\ k \in 1..Len(inflight)
    /\ inflight[k].kind = "generate"
    /\ LET result == GenerateResult(inflight[k].body, fill) IN
        /\ ~GenerateRender(result).threw
        /\ generatedSchedule' = Some(result)
        /\ scheduleTable' = Some(GenerateRender(result))
        /\ warningsShown' = warnings
        /\ ShowLoadingFalse(uploadedData, Some(result), "recreate")
    /\ inflight' = Without(inflight, k)
    /\ UNCHANGED <<uploadedData, originalSchedule, fileName, epoch, refused,
                   presetVars, callVars>>

\* res.ok but renderTable throws at line 431: lines 304-309 have run, 326-329 follow
GenerateThrew(k, fill) ==
    /\ k \in 1..Len(inflight)
    /\ inflight[k].kind = "generate"
    /\ LET result == GenerateResult(inflight[k].body, fill) IN
        /\ GenerateRender(result).threw
        /\ generatedSchedule' = Some(result)
        /\ ShowLoadingFalse(uploadedData, Some(result), "recreate")
    /\ inflight' = Without(inflight, k)
    /\ UNCHANGED <<uploadedData, originalSchedule, scheduleTable, warningsShown,
                   fileName, epoch, refused,
                   presetVars, callVars>>

\* !res.ok, or fetch rejected: lines 299-302 or 288, then 326-329
GenerateFail(k) ==
    /\ k \in 1..Len(inflight)
    /\ inflight[k].kind = "generate"
    /\ ShowLoadingFalse(uploadedData, generatedSchedule, generateBtn.text)
    /\ inflight' = Without(inflight, k)
    /\ UNCHANGED <<uploadedData, originalSchedule, generatedSchedule, scheduleTable,
                   warningsShown, fileName, epoch, refused,
                   presetVars, callVars>>

(***************************************************************************)
(* The download button's click listener, lines 337-372.                    *)
(***************************************************************************)
\* up to the await of line 343
DownloadClick ==
    /\ ~downloadBtnDisabled
    /\ Len(inflight) < MaxInFlight
    /\ IF generatedSchedule = None
       THEN UNCHANGED <<generateBtn, downloadBtnDisabled, loadingShown, inflight>>
       ELSE /\ ShowLoadingTrue
            /\ inflight' = Append(inflight,
                   [kind |-> "download", file |-> NoFile,
                    body |-> [staff_ids |-> uploadedData[1].staff_ids,
                              dates |-> uploadedData[1].dates,
                              schedule |-> generatedSchedule[1],
                              settings |-> NoSettings,
                              epoch |-> epoch]])
    /\ UNCHANGED <<uploadedData, originalSchedule, generatedSchedule, scheduleTable,
                   warningsShown, fileName, epoch, refused,
                   presetVars, callVars>>

\* res.ok: the file is handed to the browser (lines 357-365), then line 370
DownloadOk(k) ==
    /\ k \in 1..Len(inflight)
    /\ inflight[k].kind = "download"
    /\ ShowLoadingFalse(uploadedData, generatedSchedule, generateBtn.text)
    /\ inflight' = Without(inflight, k)
    /\ UNCHANGED <<uploadedData, originalSchedule, generatedSchedule, scheduleTable,
                   warningsShown, fileName, epoch, refused,
                   presetVars, callVars>>

\* !res.ok, or fetch rejected: lines 353-355 or 343, then 367-370
DownloadFail(k) ==
    /\ k \in 1..Len(inflight)
    /\ inflight[k].kind = "download"
    /\ ShowLoadingFalse(uploadedData, generatedSchedule, generateBtn.text)
    /\ inflight' = Without(inflight, k)
    /\ UNCHANGED <<uploadedData, originalSchedule, generatedSchedule, scheduleTable,
                   warningsShown, fileName, epoch, refused,
                   presetVars, callVars>>

(***************************************************************************)
(* The month picker's change listener, lines 45-51: a re-render of what    *)
(* the session holds.  (The weekday classes of the header, the one part of *)
(* the markup that reads the month, are not part of the markup record.)    *)
(***************************************************************************)
\* renderTable's arguments at lines 47-49, rendered with the inputs `els`
CurrentRender(els) ==
    RenderTable(uploadedData[1].staff_ids, uploadedData[1].dates,
                IF generatedSchedule # None THEN generatedSchedule[1]
                ELSE uploadedData[1].schedule,
                IF generatedSchedule # None THEN originalSchedule ELSE None,
                els)

TargetMonthChange ==
    /\ scheduleTable' = IF uploadedData # None /\ ~CurrentRender(inputs).threw
                        THEN Some(CurrentRender(inputs))
                        ELSE scheduleTable
    /\ UNCHANGED <<uploadedData, originalSchedule, generatedSchedule, generateBtn,
                   downloadBtnDisabled, loadingShown, warningsShown, fileName, inflight,
                   epoch, refused,
                   presetVars, callVars>>

(***************************************************************************)
(* Specification Spec: the session.  The user picks files and clicks the   *)
(* buttons that are enabled; each request in flight completes, in any      *)
(* order, with success or failure.                                         *)
(***************************************************************************)
\* no call of getSettings or of getDayClass has been made on its own
SettingsIdle == [called |-> FALSE, els |-> InitialInputs, result |-> getSettings(InitialInputs)]

DayIdle == [called |-> FALSE, year |-> 0, month |-> 0, day |-> 0, monthVal |-> <<>>,
            dateStr |-> <<>>, result |-> ""]

Init ==
    /\ PageLoaded
    /\ settingsCall = SettingsIdle
    /\ dayCall = DayIdle
    /\ badgeCall = [called |-> FALSE, value |-> 0, target |-> 0, type |-> "night",
                    result |-> Badge("", 0)]
    /\ renderCall = [called |-> FALSE, staffIds |-> <<>>, dates |-> <<>>,
                     schedule |-> <<>>, original |-> None, inputs |-> InitialInputs,
                     result |-> RenderThrew]

Next ==
    \/ \E file \in Files : HandleFileUpload(file)
    \/ \E k \in 1..MaxInFlight : UploadOk(k)
    \/ \E k \in 1..MaxInFlight : UploadFail(k)
    \/ GenerateClick
    \/ \E k \in 1..MaxInFlight, fill \in Fills, warnings \in BOOLEAN :
            GenerateOk(k, fill, warnings)
    \/ \E k \in 1..MaxInFlight, fill \in Fills : GenerateThrew(k, fill)
    \/ \E k \in 1..MaxInFlight : GenerateFail(k)
    \/ DownloadClick
    \/ \E k \in 1..MaxInFlight : DownloadOk(k)
    \/ \E k \in 1..MaxInFlight : DownloadFail(k)
    \/ TargetMonthChange

Spec == Init /\ [][Next]_vars

\* C3: at most one generate request is in flight at a time for the same
\* uploaded dataset (the dataset of one completed upload).
C3_GenerateSerialized ==
    \A a, b \in 1..Len(inflight) :
        (a # b /\ inflight[a].kind = "generate" /\ inflight[b].kind = "generate")
            => inflight[a].body.epoch # inflight[b].body.epoch

\* a request ends in failure: a non-success response, or an exception raised
\* while its response is handled
FailedRequest ==
    \E k \in 1..MaxInFlight :
        \/ UploadFail(k)
        \/ GenerateFail(k)
        \/ \E fill \in Fills : GenerateThrew(k, fill)
        \/ DownloadFail(k)

\* C4: a failed upload, generate or download request leaves uploadedData,
\* originalSchedule, generatedSchedule and the displayed grid as they were.
C4_FailureLeavesState ==
    [][FailedRequest =>
          UNCHANGED <<uploadedData, originalSchedule, generatedSchedule, scheduleTable>>]_vars

(***************************************************************************)
(* Presets, lines 74-173.                                                  *)
(***************************************************************************)
\* { ...DEFAULT_PRESETS, ...custom }: a stored entry replaces the built-in one
\* of the same name (lines 76, 103)
AllPresets(custom) ==
    [n \in {DEFAULT_NAME} \cup DOMAIN custom |->
        IF n \in DOMAIN custom THEN custom[n] ELSE DEFAULT_VALUES]

\* the six inputs as applyPreset(name) leaves them (lines 101-113)
applyPreset(name, custom, els) ==
    IF name \notin DOMAIN AllPresets(custom) THEN els
    ELSE [key \in SettingKeySet |-> ToStr(AllPresets(custom)[name][key])]

\* the values saved with the fallback 1 in place of 0
PresetValuesOrOne(els) == [key \in SettingKeySet |-> ParseIntOr(els[key], 1)]

\* values[key] = parseInt(el.value) || 0    (lines 125-128)
PresetValues(els) == [key \in SettingKeySet |-> ParseIntOr(els[key], 0)]

\* the stored object after custom[name] = values (lines 125-131)
SavedPresets(custom, name, els) ==
    [n \in DOMAIN custom \cup {name} |-> IF n = name THEN PresetValues(els) ELSE custom[n]]

\* savePreset() without the check of lines 120-123
SavePresetAnyName(entered) ==
    /\ IF entered = None \/ Trim(entered[1]) = <<>>
       THEN UNCHANGED <<shiftPresets, presetSelect>>
       ELSE LET trimmed == Trim(entered[1]) IN
            /\ shiftPresets' = SavedPresets(shiftPresets, trimmed, inputs)
            /\ presetSelect' = trimmed
    /\ UNCHANGED <<inputs, sessionVars, callVars>>

\* savePreset() when prompt returns `entered`: None for Cancel, Some(text) for OK
SavePreset(entered) ==
    /\ IF entered = None \/ Trim(entered[1]) = <<>> \/ Trim(entered[1]) = CUSTOM
       THEN UNCHANGED <<shiftPresets, presetSelect>>
       ELSE LET trimmed == Trim(entered[1]) IN
            /\ shiftPresets' = SavedPresets(shiftPresets, trimmed, inputs)
            /\ presetSelect' = trimmed      \* line 135, after loadPresets() listed it
    /\ UNCHANGED <<inputs, sessionVars, callVars>>

\* deletePreset() when confirm returns `confirmed`
DeletePreset(confirmed) ==
    /\ IF presetSelect = CUSTOM \/ presetSelect = DEFAULT_NAME \/ ~confirmed
       THEN UNCHANGED <<shiftPresets, presetSelect, inputs>>
       ELSE LET custom == [n \in DOMAIN shiftPresets \ {presetSelect} |-> shiftPresets[n]] IN
            /\ shiftPresets' = custom
            /\ presetSelect' = DEFAULT_NAME     \* line 154, after loadPresets()
            /\ inputs' = applyPreset(DEFAULT_NAME, custom, inputs)
    /\ UNCHANGED <<sessionVars, callVars>>

\* the select's change listener (lines 158-163), the user having picked `name`
PresetChange(name) ==
    /\ name \in DOMAIN AllPresets(shiftPresets) \cup {CUSTOM}
    /\ name # presetSelect
    /\ presetSelect' = name
    /\ inputs' = IF name # CUSTOM THEN applyPreset(name, shiftPresets, inputs) ELSE inputs
    /\ UNCHANGED <<shiftPresets, sessionVars, callVars>>

EditableKeys ==
    {SETTING_KEYS[k] : k \in (Len(SETTING_KEYS) - NumEditableKeys + 1)..Len(SETTING_KEYS)}

\* what the user types into a threshold input
InputTexts == {<<>>, <<"1">>, <<"2", "x">>}

\* the input listener of a threshold input (lines 169-173), the user having
\* replaced its text
InputEdit(key, text) ==
    /\ text # inputs[key]
    /\ inputs' = [inputs EXCEPT ![key] = text]
    /\ presetSelect' = CUSTOM
    /\ UNCHANGED <<shiftPresets, sessionVars, callVars>>

\* what the user answers to the prompt of line 116
PromptEntries ==
    {None, Some(<<>>), Some(<<" ">>), Some(<<"A">>), Some(<<" ", "A", " ">>),
     Some(CUSTOM), Some(<<" ">> \o CUSTOM), Some(DEFAULT_NAME)}

(***************************************************************************)
(* Specification SpecPreset: thresholds and presets with a grid on         *)
(* display.  It starts from the session after the upload of the 2 x 2      *)
(* file, or after that upload and one generation.                          *)
(***************************************************************************)
SessionAfterUpload ==
    /\ uploadedData = Some(FullData)
    /\ originalSchedule = Some(CopyMatrix(FullData.schedule))
    /\ generatedSchedule = None
    /\ scheduleTable = Some(RenderTable(FullData.staff_ids, FullData.dates,
                                        FullData.schedule, None, InitialInputs))
    /\ generateBtn = [disabled |-> FALSE, text |-> "create"]
    /\ downloadBtnDisabled = TRUE
    /\ loadingShown = FALSE
    /\ warningsShown = FALSE
    /\ fileName = <<"a", ".", "x", "l", "s", "x">>
    /\ inflight = <<>>
    /\ epoch = 1
    /\ refused = FALSE

GeneratedFull ==
    GenerateResult([staff_ids |-> FullData.staff_ids, dates |-> FullData.dates,
                    schedule |-> FullData.schedule], NICHI)

SessionAfterGenerate ==
    /\ uploadedData = Some(FullData)
    /\ originalSchedule = Some(CopyMatrix(FullData.schedule))
    /\ generatedSchedule = Some(GeneratedFull)
    /\ scheduleTable = Some(RenderTable(FullData.staff_ids, FullData.dates, GeneratedFull,
                                        Some(CopyMatrix(FullData.schedule)), InitialInputs))
    /\ generateBtn = [disabled |-> FALSE, text |-> "recreate"]
    /\ downloadBtnDisabled = FALSE
    /\ loadingShown = FALSE
    /\ warningsShown = FALSE
    /\ fileName = <<"a", ".", "x", "l", "s", "x">>
    /\ inflight = <<>>
    /\ epoch = 1
    /\ refused = FALSE

InitPreset ==
    /\ SessionAfterUpload \/ SessionAfterGenerate
    /\ inputs = InitialInputs
    /\ presetSelect = DEFAULT_NAME
    /\ shiftPresets = NoPresets
    /\ settingsCall = SettingsIdle
    /\ dayCall = DayIdle
    /\ badgeCall = [called |-> FALSE, value |-> 0, target |-> 0, type |-> "night",
                    result |-> Badge("", 0)]
    /\ renderCall = [called |-> FALSE, staffIds |-> <<>>, dates |-> <<>>,
                     schedule |-> <<>>, original |-> None, inputs |-> InitialInputs,
                     result |-> RenderThrew]

NextPreset ==
    \/ \E entered \in PromptEntries : SavePreset(entered)
    \/ \E confirmed \in BOOLEAN : DeletePreset(confirmed)
    \/ \E name \in {DEFAULT_NAME, <<"A">>, CUSTOM} : PresetChange(name)
    \/ \E key \in EditableKeys, text \in InputTexts : InputEdit(key, text)
    \/ TargetMonthChange

SpecPreset == InitPreset /\ [][NextPreset]_vars

\* C5: whatever was saved, deleted or applied, applying the built-in preset name
\* yields the built-in values of DEFAULT_PRESETS.
C5_BuiltinPresetImmutable ==
    applyPreset(DEFAULT_NAME, shiftPresets, inputs)
        = [key \in SettingKeySet |-> ToStr(DEFAULT_VALUES[key])]

\* C10: with a grid on display and no request in flight, the displayed badges,
\* row classes and shortage flags are those of the current threshold inputs.
C10_GridFollowsThresholds ==
    (scheduleTable # None /\ inflight = <<>> /\ ~CurrentRender(inputs).threw)
        => scheduleTable = Some(CurrentRender(inputs))

(***************************************************************************)
(* Specification SpecBadge: getStatBadge applied to bounded arguments.     *)
(***************************************************************************)
BadgeInts == (0 - MaxBadge)..MaxBadge
BadgeTypes == {"night", "off", "day", ""}

BadgeIdle == [called |-> FALSE, value |-> 0, target |-> 0, type |-> "night",
              result |-> Badge("", 0)]

RenderIdle == [called |-> FALSE, staffIds |-> <<>>, dates |-> <<>>, schedule |-> <<>>,
               original |-> None, inputs |-> InitialInputs, result |-> RenderThrew]

InitBadge ==
    /\ badgeCall \in [called : {FALSE}, value : BadgeInts, target : BadgeInts,
                      type : BadgeTypes, result : {Badge("", 0)}]
    /\ renderCall = RenderIdle
    /\ settingsCall = SettingsIdle
    /\ dayCall = DayIdle
    /\ PageLoaded

CallGetStatBadge ==
    /\ ~badgeCall.called
    /\ badgeCall' = [badgeCall EXCEPT
                        !.called = TRUE,
                        !.result = getStatBadge(badgeCall.value, badgeCall.target,
                                                badgeCall.type)]
    /\ UNCHANGED <<renderCall, settingsCall, dayCall, sessionVars, presetVars>>

NextBadge == CallGetStatBadge

SpecBadge == InitBadge /\ [][NextBadge]_vars

BadgeSeverity == badgeCall.result.cls

\* C1: getStatBadge(value, target, "night") is, for target > 0, danger iff
\* value >= target, warning iff value = target - 1 and ok iff
\* value < target - 1; for target <= 0 it is ok for every value.
C1_NightBadge ==
    (badgeCall.called /\ badgeCall.type = "night") =>
        LET v == badgeCall.value
            t == badgeCall.target
        IN  /\ ~badgeCall.result.threw
            /\ badgeCall.result.text = v
            /\ BadgeSeverity \in {"stat-badge-danger", "stat-badge-warning", "stat-badge-ok"}
            /\ t > 0 => /\ (BadgeSeverity = "stat-badge-danger" <=> v >= t)
                        /\ (BadgeSeverity = "stat-badge-warning" <=> v = t - 1)
                        /\ (BadgeSeverity = "stat-badge-ok" <=> v < t - 1)
            /\ t <= 0 => BadgeSeverity = "stat-badge-ok"

\* C1 witness: a night badge was computed at the warning boundary value = target - 1.
C1_Witness ==
    /\ badgeCall.called
    /\ badgeCall.type = "night"
    /\ badgeCall.target > 0
    /\ badgeCall.value = badgeCall.target - 1
    /\ BadgeSeverity = "stat-badge-warning"

\* C2: getStatBadge(value, target, "off") is danger iff |value - target| >= 2,
\* warning iff |value - target| = 1 and ok iff value = target, whichever of the
\* two is the larger.
C2_OffBadge ==
    (badgeCall.called /\ badgeCall.type = "off") =>
        LET v == badgeCall.value
            t == badgeCall.target
            far == v - t >= 2 \/ t - v >= 2
            near == v - t = 1 \/ t - v = 1
        IN  /\ ~badgeCall.result.threw
            /\ badgeCall.result.text = v
            /\ BadgeSeverity \in {"stat-badge-danger", "stat-badge-warning", "stat-badge-ok"}
            /\ BadgeSeverity = "stat-badge-danger" <=> far
            /\ BadgeSeverity = "stat-badge-warning" <=> near
            /\ BadgeSeverity = "stat-badge-ok" <=> v = t

\* C2 witness: too many off-days by two or more was classified danger.
C2_Witness ==
    /\ badgeCall.called
    /\ badgeCall.type = "off"
    /\ badgeCall.value >= badgeCall.target + 2
    /\ BadgeSeverity = "stat-badge-danger"

\* C9: getStatBadge called with a metric kind other than "night" or "off"
\* reports an error and never returns a default result.
C9_UnknownKindReportsError ==
    (badgeCall.called /\ badgeCall.type \notin {"night", "off"}) =>
        badgeCall.result.threw

(***************************************************************************)
(* Specification SpecRender: renderTable applied to bounded arguments.     *)
(* The arguments come from three families: one row over the whole shift    *)
(* vocabulary (row summaries), one row with an original matrix (fixed      *)
(* marking), and several rows of day/night cells under varied thresholds   *)
(* (column totals).                                                        *)
(***************************************************************************)
SeqsUpTo(S, n) == UNION {[1..k -> S] : k \in 0..n}

\* the day-of-month labels "1", "2", ...
DateLabels(n) == [d \in 1..n |-> ToStr(d)]

StaffLabels(k) == [i \in 1..k |-> <<"s", Digits[i + 1]>>]

\* every shift code, the empty cell, a blank cell and a code outside the vocabulary
CellVocab == ShiftCodes \cup {<<>>, <<" ">>, <<"x">>}

OrigVocab == {<<>>, <<" ">>, KOU, <<" ", "kou", " ">>}

RenderArgs(staffIds, dates, schedules, originals, elss) ==
    [called : {FALSE}, staffIds : {staffIds}, dates : {dates}, schedule : schedules,
     original : originals, inputs : elss, result : {RenderThrew}]

RowFamily ==
    UNION {RenderArgs(StaffLabels(1), DateLabels(n),
                      {<<>>} \cup {<<row>> : row \in SeqsUpTo(CellVocab, n)},
                      {None}, {InitialInputs}) : n \in 0..MaxDates}

FixedFamily ==
    UNION {RenderArgs(StaffLabels(k), DateLabels(n),
                      {<<row>> : row \in [1..n -> {<<>>, NICHI}]},
                      {Some(<<>>)} \cup {Some(<<orow>>) : orow \in SeqsUpTo(OrigVocab, n)},
                      {InitialInputs}) : k \in 1..2, n \in 1..MaxDates}

ColumnInputs ==
    {[InitialInputs EXCEPT !["requiredPerDay"] = ToStr(r), !["maxNightShifts"] = ToStr(m)] :
        r \in 0..MaxThreshold, m \in {1, 5}}

ColumnFamily ==
    UNION {RenderArgs(StaffLabels(k), DateLabels(2),
                      SeqsUpTo([1..2 -> {<<>>, NICHI, YA}], k),
                      {None}, ColumnInputs) : k \in 1..MaxStaff}

\* the two headcounts that rank the rows; 0 and the empty text select the default
ClassInputs ==
    {[InitialInputs EXCEPT !["nightLeaderCount"] = a, !["nightEligibleCount"] = b] :
        a, b \in {<<>>} \cup {ToStr(n) : n \in -1..MaxThreshold}}

ClassFamily ==
    UNION {RenderArgs(StaffLabels(k), DateLabels(1),
                      {<<>>, [i \in 1..k |-> <<YA>>]},
                      {None}, ClassInputs) : k \in 1..MaxStaff}

InitRender ==
    /\ renderCall \in RowFamily \cup FixedFamily \cup ColumnFamily \cup ClassFamily
    /\ badgeCall = BadgeIdle
    /\ settingsCall = SettingsIdle
    /\ dayCall = DayIdle
    /\ PageLoaded

CallRenderTable ==
    /\ ~renderCall.called
    /\ renderCall' = [renderCall EXCEPT
                         !.called = TRUE,
                         !.result = RenderTable(renderCall.staffIds, renderCall.dates,
                                                renderCall.schedule, renderCall.original,
                                                renderCall.inputs)]
    /\ UNCHANGED <<badgeCall, settingsCall, dayCall, sessionVars, presetVars>>

NextRender == CallRenderTable

SpecRender == InitRender /\ [][NextRender]_vars

Rendered == renderCall.called /\ ~renderCall.result.threw

\* the argument cell (i, j) of a matrix, empty when the row or the cell is missing
ArgCell(m, i, j) == IF i <= Len(m) /\ j <= Len(m[i]) THEN m[i][j] ELSE <<>>

\* C6: in a completed render, cell (i,j) is marked fixed iff an original matrix
\* is supplied and original[i][j] holds a character that is not whitespace,
\* whatever the current matrix holds at (i,j); with no original no cell is marked.
C6_FixedMarking ==
    Rendered =>
        \A i \in 1..Len(renderCall.staffIds), j \in 1..Len(renderCall.dates) :
            renderCall.result.rows[i].cells[j].fixed
                <=> /\ renderCall.original # None
                    /\ \E c \in 1..Len(ArgCell(renderCall.original[1], i, j)) :
                            ArgCell(renderCall.original[1], i, j)[c] \notin Whitespace

\* C6 witness: a cell whose current value is empty was marked fixed, and a cell
\* whose original value is blank was not.
C6_Witness ==
    /\ Rendered
    /\ renderCall.original # None
    /\ \E j \in 1..Len(renderCall.dates) :
            /\ ArgCell(renderCall.schedule, 1, j) = <<>>
            /\ renderCall.result.rows[1].cells[j].fixed
    /\ \E j \in 1..Len(renderCall.dates) :
            /\ ArgCell(renderCall.original[1], 1, j) = <<" ">>
            /\ ~renderCall.result.rows[1].cells[j].fixed

CellsEqual(i, codes) ==
    Cardinality({j \in 1..Len(renderCall.dates) :
                    ArgCell(renderCall.schedule, i, j) \in codes})

\* C7: every row summary has nightCount = number of "ya" cells, dayCount =
\* number of "nichi" cells and offCount = number of "kou", "ki", "kyuu" and
\* "yuu" cells; "ake", "i", "ken", empty and missing cells add to no count.
C7_RowSummary ==
    Rendered =>
        \A i \in 1..Len(renderCall.staffIds) :
            LET row == renderCall.result.rows[i] IN
            /\ row.nightBadge.text = CellsEqual(i, {YA})
            /\ row.dayCount = CellsEqual(i, {NICHI})
            /\ row.offBadge.text = CellsEqual(i, {KOU, KI, KYUU, YUU})
            /\ row.nightBadge.text + row.dayCount + row.offBadge.text
                   = Len(renderCall.dates)
                        - CellsEqual(i, {AKE, I_, KEN, <<>>, <<" ">>, <<"x">>})

\* C7 witness: a row holding a training cell and an off cell was summarised.
C7_Witness ==
    /\ Rendered
    /\ Len(renderCall.staffIds) = 1
    /\ CellsEqual(1, {KEN}) = 1
    /\ CellsEqual(1, {YUU}) = 1
    /\ renderCall.result.rows[1].offBadge.text = 1

ColumnCount(j, code) ==
    Cardinality({i \in 1..Len(renderCall.staffIds) :
                    ArgCell(renderCall.schedule, i, j) = code})

\* C8: for every date column the day total is the number of "nichi" cells and is
\* flagged iff it is below required-staff-per-day; the night total is the number
\* of "ya" cells and is flagged iff it is below 2, whatever max-night-shifts is.
C8_ColumnShortage ==
    Rendered =>
        \A j \in 1..Len(renderCall.dates) :
            LET day == renderCall.result.dayRow[j]
                night == renderCall.result.nightRow[j]
            IN  /\ day.total = ColumnCount(j, NICHI)
                /\ night.total = ColumnCount(j, YA)
                /\ day.shortage <=>
                       day.total < getSettings(renderCall.inputs).required_staff_per_day
                /\ night.shortage <=> night.total < 2

\* C8 witness: with max-night-shifts 1, a column with one night shift was flagged
\* and a column whose day total equals the required number was not.
C8_Witness ==
    /\ Rendered
    /\ getSettings(renderCall.inputs).max_night_shifts = 1
    /\ \E j \in 1..Len(renderCall.dates) :
            /\ renderCall.result.nightRow[j].total = 1
            /\ renderCall.result.nightRow[j].shortage
    /\ \E j \in 1..Len(renderCall.dates) :
            /\ renderCall.result.dayRow[j].total = 2
            /\ getSettings(renderCall.inputs).required_staff_per_day = 2
            /\ ~renderCall.result.dayRow[j].shortage

(***************************************************************************)
(* Specification SpecSettings: getSettings() on its own.  One input at a   *)
(* time holds any of the texts a user can leave in it while the others     *)
(* keep their page-load values, or all six hold one of the common texts.   *)
(***************************************************************************)
SettingTexts ==
    {<<>>, <<"0">>, <<"7">>, <<"1", "2">>, <<"-", "2">>, <<" ", "3">>, <<"4", "x">>,
     <<"a">>, <<" ">>}

CommonTexts == {<<>>, <<"0">>, <<"7">>}

SettingsInputs ==
    {[InitialInputs EXCEPT ![key] = text] : key \in SettingKeySet, text \in SettingTexts}
        \cup [SettingKeySet -> CommonTexts]

InitSettings ==
    /\ PageLoaded
    /\ badgeCall = BadgeIdle
    /\ renderCall = RenderIdle
    /\ dayCall = DayIdle
    /\ settingsCall \in {[called |-> FALSE, els |-> els, result |-> getSettings(InitialInputs)] :
                            els \in SettingsInputs}

CallGetSettings ==
    /\ ~settingsCall.called
    /\ settingsCall' = [settingsCall EXCEPT !.called = TRUE,
                                            !.result = getSettings(settingsCall.els)]
    /\ UNCHANGED <<badgeCall, renderCall, dayCall, sessionVars, presetVars>>

NextSettings == CallGetSettings

SpecSettings == InitSettings /\ [][NextSettings]_vars

\* the field of the settings object that each input feeds (lines 380-385)
SettingField ==
    [dayLeaderCount |-> "day_leader_count", nightLeaderCount |-> "night_leader_count",
     nightEligibleCount |-> "night_eligible_count", requiredPerDay |-> "required_staff_per_day",
     maxNightShifts |-> "max_night_shifts", daysOff |-> "days_off"]

\* the integers whose decimal notation is among the texts entered
EnteredInts == -20..20

\* the text is the decimal notation of an integer
IsIntegerText(text) == \E n \in EnteredInts : ToStr(n) = text

IntegerOfText(text) == CHOOSE n \in EnteredInts : ToStr(n) = text

\* the text holds no digit at all: the input is unset or non-numeric
HasNoDigit(text) == \A i \in 1..Len(text) : ~IsDigit(text[i])

\* C11: for each of the six thresholds independently, getSettings yields the
\* integer entered when the input's text is an integer, and the threshold's
\* default (10, 8, 17, 5, 5, 9) when the input is unset or non-numeric.
C11_EnteredOrDefault ==
    settingsCall.called =>
        \A key \in SettingKeySet :
            LET text == settingsCall.els[key]
                got == settingsCall.result[SettingField[key]]
            IN  /\ IsIntegerText(text) => got = IntegerOfText(text)
                /\ HasNoDigit(text) => got = DEFAULT_VALUES[key]

(***************************************************************************)
(* Claims on the preset store, under SpecPreset.                           *)
(***************************************************************************)
\* C12: the sentinel name "__custom__" is never a save or delete target: after
\* any step the store holds no entry under the sentinel, and a deletePreset
\* while the sentinel is selected leaves the store as it was.
C12_SentinelNeverTarget ==
    [][/\ CUSTOM \notin DOMAIN shiftPresets'
       /\ (presetSelect = CUSTOM /\ \E confirmed \in BOOLEAN : DeletePreset(confirmed))
              => UNCHANGED shiftPresets]_vars

\* a preset is stored and the sentinel is selected: a save under the sentinel
\* and a delete are both on offer
C12_Witness == presetSelect = CUSTOM /\ DOMAIN shiftPresets # {}

\* the names savePreset stores under, the built-in one apart
AcceptedNames ==
    {Trim(entered[1]) : entered \in PromptEntries \ {None}} \ {<<>>, CUSTOM, DEFAULT_NAME}

\* the six inputs as they are, or with the first one holding a text without digits
RoundTripInputs == {inputs, [inputs EXCEPT ![SETTING_KEYS[1]] = <<"a">>]}

\* C20: whatever the six inputs hold, once savePreset has stored them under an
\* accepted name other than the built-in one, applyPreset of that name yields
\* inputs from which getSettings returns what it returns before the save.
C20_PresetRoundTrip ==
    \A name \in AcceptedNames, els \in RoundTripInputs :
        getSettings(applyPreset(name, SavedPresets(shiftPresets, name, els), els))
            = getSettings(els)

\* the round trip of an empty input: saved as 0 under "A" and applied, the
\* input reads "0" and the setting is the default again
C20_Witness ==
    /\ presetSelect = <<"A">>
    /\ <<"A">> \in DOMAIN shiftPresets
    /\ shiftPresets[<<"A">>]["daysOff"] = 0
    /\ inputs["daysOff"] = <<"0">>
    /\ getSettings(inputs).days_off = 9

(***************************************************************************)
(* Claims on the session, under Spec.                                      *)
(***************************************************************************)
\* the step handles the response to a generate request: the request leaves
\* the requests in flight
GenerateResponse ==
    \E k \in 1..Len(inflight) :
        inflight[k].kind = "generate" /\ inflight' = Without(inflight, k)

\* the name ends in .xls or .xlsx, in any mix of upper and lower case
HasSpreadsheetExtension(name) ==
    LET n == Len(name)
        IsXls(at) == /\ at >= 1
                     /\ name[at] = "."
                     /\ name[at + 1] \in {"x", "X"}
                     /\ name[at + 2] \in {"l", "L"}
                     /\ name[at + 3] \in {"s", "S"}
    IN  \/ IsXls(n - 3)
        \/ IsXls(n - 4) /\ name[n] \in {"x", "X"}

\* C15: handleFileUpload on a file whose name has no .xls/.xlsx extension
\* issues no request, computes no grid, and leaves uploadedData,
\* originalSchedule, generatedSchedule and both buttons as they were.
C15_RejectedBeforeRequest ==
    [][\A file \in Files :
          (~HasSpreadsheetExtension(file.name) /\ HandleFileUpload(file))
              => UNCHANGED <<inflight, loadingShown, scheduleTable, uploadedData,
                             originalSchedule, generatedSchedule, generateBtn,
                             downloadBtnDisabled>>]_vars

\* a file has been turned away while a generated schedule is on display and
\* nothing is in flight
C15_Witness ==
    /\ refused
    /\ inflight = <<>>
    /\ generatedSchedule # None
    /\ ~downloadBtnDisabled

\* C13: every generate request, a regeneration included, carries as its
\* schedule the matrix of the most recently completed upload, never a generated
\* one; and handling a generate response changes neither originalSchedule nor
\* uploadedData.
C13_GenerateSendsOriginal ==
    [][/\ (GenerateClick /\ inflight' # inflight)
              => LET request == inflight'[Len(inflight')] IN
                     /\ request.kind = "generate"
                     /\ request.body.schedule = uploadedData[1].schedule
       /\ GenerateResponse => UNCHANGED <<originalSchedule, uploadedData>>]_vars

\* a regeneration is in flight: a generated matrix is held, and the request
\* carries the uploaded matrix, which differs from it
C13_Witness ==
    \E k \in 1..Len(inflight) :
        /\ inflight[k].kind = "generate"
        /\ generatedSchedule # None
        /\ inflight[k].body.schedule = uploadedData[1].schedule
        /\ inflight[k].body.schedule # generatedSchedule[1]

\* C17: a generate result is stored, and rendered, only for the dataset now
\* held: the request it answers was issued from the uploadedData and
\* originalSchedule the session holds when the response is handled.
C17_NoStaleGenerate ==
    [][\A k \in 1..MaxInFlight, fill \in Fills :
          (GenerateThrew(k, fill) \/ \E warnings \in BOOLEAN : GenerateOk(k, fill, warnings))
              => /\ inflight[k].body.staff_ids = uploadedData[1].staff_ids
                 /\ inflight[k].body.dates = uploadedData[1].dates
                 /\ inflight[k].body.schedule = originalSchedule[1]]_vars

\* C18: while any request is in flight the loading panel is shown and both
\* buttons are disabled.
C18_BusyWhileInFlight ==
    inflight # <<>> => (loadingShown /\ generateBtn.disabled /\ downloadBtnDisabled)

\* the request the step has just issued, if it issued one of this kind
Issued(kind) ==
    /\ Len(inflight') = Len(inflight) + 1
    /\ inflight'[Len(inflight')].kind = kind

\* C19: after any step the download button is enabled only if
\* generatedSchedule is non-null and the generate button only if uploadedData
\* is non-null; a generate request is issued only with an uploaded dataset and
\* a download request only with a generated schedule; a completed upload
\* leaves generatedSchedule null and the download button disabled.
C19_ButtonsFollowSession ==
    [][/\ ~downloadBtnDisabled' => generatedSchedule' # None
       /\ ~generateBtn'.disabled => uploadedData' # None
       /\ Issued("generate") => uploadedData # None
       /\ Issued("download") => generatedSchedule # None
       /\ (\E k \in 1..MaxInFlight : UploadOk(k))
              => (generatedSchedule' = None /\ downloadBtnDisabled')]_vars

\* the second upload has completed: no generated schedule is held, download
\* is disabled and generate is enabled
C19_Witness ==
    /\ epoch = 2
    /\ generateBtn = [disabled |-> FALSE, text |-> "create"]
    /\ uploadedData # None
    /\ generatedSchedule = None
    /\ downloadBtnDisabled
    /\ inflight = <<>>

(***************************************************************************)
(* Claims on the rendered rows, under SpecRender.                          *)
(***************************************************************************)
\* C14: the row with (0-based) index i is classed leader iff i is below the
\* night-leader count, night-eligible iff i is at least the night-leader count
\* and below the night-eligible count, and unclassed otherwise, whatever the
\* row holds.
C14_RowClassByIndex ==
    Rendered =>
        \A r \in 1..Len(renderCall.staffIds) :
            LET i == r - 1
                leaders == getSettings(renderCall.inputs).night_leader_count
                eligible == getSettings(renderCall.inputs).night_eligible_count
                cls == renderCall.result.rows[r].rowClass
            IN  /\ cls = "leader-row" <=> i < leaders
                /\ cls = "night-eligible-row" <=> (leaders <= i /\ i < eligible)
                /\ cls = "" <=> (i >= leaders /\ i >= eligible)

\* one render shows the three classes: a leader, a night-eligible and an
\* unclassed row
C14_Witness ==
    /\ Rendered
    /\ Len(renderCall.staffIds) = 3
    /\ renderCall.result.rows[1].rowClass = "leader-row"
    /\ renderCall.result.rows[2].rowClass = "night-eligible-row"
    /\ renderCall.result.rows[3].rowClass = ""

(***************************************************************************)
(* getDayClass(dateStr), lines 490-508, and the Date it constructs.        *)
(***************************************************************************)
\* the part of s before its first "-", and what follows that "-"
RECURSIVE BeforeDash(_)
BeforeDash(s) ==
    IF s = <<>> \/ Head(s) = "-" THEN <<>> ELSE <<Head(s)>> \o BeforeDash(Tail(s))

AfterDash(s) == SubSeq(s, Len(BeforeDash(s)) + 2, Len(s))

\* monthVal.split("-"): the first two parts (line 494); a missing second part
\* is undefined, which parseInt reads as NaN like the empty text
Split2(s) == <<BeforeDash(s), BeforeDash(AfterDash(s))>>

\* ECMAScript's day arithmetic behind new Date(year, monthIndex, day).getDay():
\* DayFromYear, the days before a month, MakeDay and WeekDay
DayFromYear(y) ==
    365 * (y - 1970) + ((y - 1969) \div 4) - ((y - 1901) \div 100) + ((y - 1601) \div 400)

InLeapYear(y) == (y % 4 = 0 /\ y % 100 # 0) \/ y % 400 = 0

DaysBeforeMonth(mn, leap) ==
    <<0, 31, 59, 90, 120, 151, 181, 212, 243, 273, 304, 334>>[mn + 1]
        + (IF leap /\ mn >= 2 THEN 1 ELSE 0)

\* a year of 0..99 is taken as 1900 + year; monthIndex and day overflow into
\* the neighbouring months and years
MakeDay(year, monthIndex, day) ==
    LET yr == IF year >= 0 /\ year <= 99 THEN 1900 + year ELSE year
        ym == yr + (monthIndex \div 12)
        mn == monthIndex % 12
    IN  DayFromYear(ym) + DaysBeforeMonth(mn, InLeapYear(ym)) + day - 1

\* 0 = Sunday ... 6 = Saturday; day 0 (1 January 1970) was a Thursday
WeekDay(dayNumber) == (dayNumber + 4) % 7

\* getDayClass with new Date(year, month, day): the month not moved to 0-based
getDayClassMonthNotShifted(monthVal, dateStr) ==
    IF monthVal = <<>> THEN ""
    ELSE LET year == ParseInt(Split2(monthVal)[1])
             month == ParseInt(Split2(monthVal)[2])
             day == ParseInt(dateStr)
         IN  IF day.nan THEN ""
             ELSE IF year.nan \/ month.nan THEN ""
             ELSE LET dow == WeekDay(MakeDay(year.val, month.val, day.val)) IN
                  IF dow = 0 THEN "sunday" ELSE IF dow = 6 THEN "saturday" ELSE ""

\* monthVal is targetMonth.value (line 491)
getDayClass(monthVal, dateStr) ==
    IF monthVal = <<>> THEN ""
    ELSE LET year == ParseInt(Split2(monthVal)[1])
             month == ParseInt(Split2(monthVal)[2])
             day == ParseInt(dateStr)
         IN  IF day.nan THEN ""
             \* an invalid Date: getDay() is NaN, equal to neither 0 nor 6
             ELSE IF year.nan \/ month.nan THEN ""
             ELSE LET dow == WeekDay(MakeDay(year.val, month.val - 1, day.val)) IN
                  IF dow = 0 THEN "sunday" ELSE IF dow = 6 THEN "saturday" ELSE ""

(***************************************************************************)
(* Specification SpecDay: getDayClass on its own, for every month of the   *)
(* years 2000 to 2100 and every day label "1" to "31", and for the labels  *)
(* and the month input that hold no number.                                *)
(***************************************************************************)
Years == 2000..2100

\* the value of the month input (type="month") for a selected year and month
MonthValue(year, month) ==
    ToStr(year) \o <<"-">> \o (IF month < 10 THEN <<"0">> ELSE <<>>) \o ToStr(month)

\* labels that parseInt reads as NaN
UnparsedLabels == {<<>>, <<"x">>, <<"nichi">>}

DayArgs(year, month, day, monthVal, dateStr) ==
    [called |-> FALSE, year |-> year, month |-> month, day |-> day,
     monthVal |-> monthVal, dateStr |-> dateStr, result |-> ""]

InitDay ==
    /\ PageLoaded
    /\ badgeCall = BadgeIdle
    /\ renderCall = RenderIdle
    /\ settingsCall = SettingsIdle
    /\ dayCall \in
          {DayArgs(y, m, d, MonthValue(y, m), ToStr(d)) : y \in Years, m \in 1..12, d \in 1..31}
          \cup {DayArgs(y, m, 0, MonthValue(y, m), label) :
                    y \in {2000, 2024, 2100}, m \in 1..12, label \in UnparsedLabels}
          \cup {DayArgs(0, 0, d, <<>>, ToStr(d)) : d \in 1..31}

CallGetDayClass ==
    /\ ~dayCall.called
    /\ dayCall' = [dayCall EXCEPT !.called = TRUE,
                                  !.result = getDayClass(dayCall.monthVal, dayCall.dateStr)]
    /\ UNCHANGED <<badgeCall, renderCall, settingsCall, sessionVars, presetVars>>

NextDay == CallGetDayClass

SpecDay == InitDay /\ [][NextDay]_vars

\* the days of a month of the Gregorian calendar
DaysInMonth(year, month) ==
    IF month = 2
    THEN (IF (year % 4 = 0 /\ year % 100 # 0) \/ year % 400 = 0 THEN 29 ELSE 28)
    ELSE IF month \in {4, 6, 9, 11} THEN 30 ELSE 31

\* Zeller's congruence for the Gregorian calendar: 0 = Saturday, 1 = Sunday,
\* 2 = Monday, ...; January and February count as months 13 and 14 of the
\* year before
Zeller(year, month, day) ==
    LET m == IF month < 3 THEN month + 12 ELSE month
        y == IF month < 3 THEN year - 1 ELSE year
        K == y % 100
        J == y \div 100
    IN  (day + ((13 * (m + 1)) \div 5) + K + (K \div 4) + (J \div 4) + 5 * J) % 7

\* C16: for every date of 2000-2100, getDayClass returns sunday iff the
\* Gregorian weekday of (selected year, selected month, day label) is Sunday,
\* saturday iff it is Saturday, and none otherwise; it returns none when the
\* label does not parse to an integer or no year-month is selected.
C16_GregorianWeekday ==
    dayCall.called =>
        IF dayCall.monthVal = <<>> \/ dayCall.dateStr \in UnparsedLabels
        THEN dayCall.result = ""
        ELSE dayCall.day <= DaysInMonth(dayCall.year, dayCall.month) =>
                LET h == Zeller(dayCall.year, dayCall.month, dayCall.day) IN
                /\ dayCall.result = "sunday" <=> h = 1
                /\ dayCall.result = "saturday" <=> h = 0
                /\ dayCall.result = "" <=> h \notin {0, 1}

\* 29 February 2000, a Tuesday of a leap year divisible by 400, is unclassed;
\* the call has been made
C16_Witness ==
    /\ dayCall.called
    /\ dayCall.year = 2000 /\ dayCall.month = 2 /\ dayCall.day = 29
    /\ dayCall.monthVal = <<"2", "0", "0", "0", "-", "0", "2">>
    /\ dayCall.result = ""
====
